---- MODULE Spec2Model ----
(***************************************************************************)
(* A model of the maze library (src/src/lib.rs): the flat wall array and   *)
(* its index arithmetic, the row-major cell iterator, the binary-tree and  *)
(* sidewinder generators with injected randomness, and the corner glyph    *)
(* lookup of the renderer.                                                 *)
(*                                                                         *)
(* A behaviour is one call made by a caller: either one of the four        *)
(* generator entry points, run to completion one loop iteration at a time, *)
(* or Maze::new followed by a bounded sequence of direct calls of          *)
(* open_north_wall, open_east_wall, get_corner and the iterator, the way   *)
(* the unit tests use them.                                                *)
(*                                                                         *)
(* u32 values are kept as integers.  Where the code can underflow          *)
(* (width - 1 with width = 0) the value is kept as its two's-complement    *)
(* representative: a negative n stands for 2^32 + n.  Sums and products of *)
(* representatives are representatives of the wrapped sums and products.   *)
(***************************************************************************)
EXTENDS Integers, Sequences, FiniteSets, TLC

\* Largest width and height the caller passes.
MaxDim == 3
\* Largest value returned by the injected rand_usize.
MaxRand == 2
\* Largest width and height of a grid whose walls the caller opens directly.
MaxClientDim == 2
\* Number of direct open_*_wall calls the caller makes on a fresh grid.
MaxOps == 4
\* Number of MazeIterator::next calls made after the first None.
MaxNone == 2

VARIABLES
    overflow_checks, \* build profile: TRUE when arithmetic overflow panics (debug)
    call,            \* the outermost call: [fn, width, height]
    pc,              \* position of the caller
    outcome,         \* how the outermost call ended: "pending", "maze", "panic", "huge", "abort"
    maze,            \* Maze { height, width, walls }
    iter,            \* MazeIterator { current_x, current_y, max_x, max_y }
    yielded,         \* cells returned by MazeIterator::next so far, in order
    nones,           \* number of times MazeIterator::next has returned None
    cells_in_run,    \* sidewinder's run
    last,            \* the last direct call and what it returned
    before,          \* the wall array before the last direct call
    ops              \* number of direct open_*_wall calls made

vars == <<overflow_checks, call, pc, outcome, maze, iter, yielded, nones,
          cells_in_run, last, before, ops>>

----------------------------------------------------------------------------
\* Values

Open == "Open"
Closed == "Closed"

None == [some |-> FALSE]
Some(v) == [some |-> TRUE, val |-> v]

Ok == "Ok"
Err == "Err"

MazeCell_new(x, y) == [x |-> x, y |-> y]

\* vec![Wall::Closed; n], indexed from 0 as in the source
VecClosed(n) == [i \in 0 .. (n - 1) |-> Closed]

VecLen(v) == Cardinality(DOMAIN v)

NoMaze == [height |-> 0, width |-> 0, walls |-> VecClosed(0)]
NoIter == [current_x |-> 0, current_y |-> 0, max_x |-> 0, max_y |-> 0]
NoCall == [op |-> "none"]

----------------------------------------------------------------------------
\* Maze::new

\* A variant of num_vertical_segments that multiplies by the width.
num_vertical_segments_by_width(width, height) == (width - 1) * width

\* The three segment counts of Maze::new, as u32 representatives.
num_vertical_segments(width, height) == (width - 1) * height
num_horizontal_segments(width, height) == (height - 1) * width
total_walls(width, height) ==
    num_vertical_segments(width, height) + num_horizontal_segments(width, height)

\* Maze::new(width, height).  `width - 1` and `height - 1` underflow when the
\* argument is 0: with overflow checks the subtraction panics, without them it
\* wraps to 2^32 - 1 and the function goes on.  A negative total stands for a
\* vector of 2^32 + total walls, which is not represented element by element.
Maze_new(width, height, checks) ==
    IF checks /\ (width < 1 \/ height < 1)
    THEN [status |-> "panic", maze |-> NoMaze]
    ELSE IF total_walls(width, height) < 0
    THEN [status |-> "huge", maze |-> NoMaze]
    ELSE [status |-> "maze",
          maze |-> [height |-> height,
                    width |-> width,
                    walls |-> VecClosed(total_walls(width, height))]]

----------------------------------------------------------------------------
\* Index arithmetic

north_wall_index_for_cell(m, x, y) ==
    IF y >= m.height - 1
    THEN None
    ELSE Some(x + y * m.width)

\* A variant of east_wall_index_for_cell that strides columns by the width.
east_wall_index_for_cell_by_width(m, x, y) ==
    IF x >= m.width - 1
    THEN None
    ELSE Some((m.height - 1) * m.width + (y + x * m.width))

east_wall_index_for_cell(m, x, y) ==
    IF x >= m.width - 1
    THEN None
    ELSE Some(num_horizontal_segments(m.width, m.height) + (y + x * m.height))

south_wall_index_for_cell(m, x, y) ==
    IF y = 0
    THEN None
    ELSE north_wall_index_for_cell(m, x, y - 1)

west_wall_index_for_cell(m, x, y) ==
    IF x = 0
    THEN None
    ELSE east_wall_index_for_cell(m, x - 1, y)

----------------------------------------------------------------------------
\* Opening walls.  Both return the pair of the Result and the maze afterwards.

\* A variant of open_north_wall that looks up the east wall's slot.
open_north_wall_east_index(m, cell) ==
    LET index == east_wall_index_for_cell(m, cell.x, cell.y)
    IN  IF index.some
        THEN [ret |-> Ok, maze |-> [m EXCEPT !.walls[index.val] = Open]]
        ELSE [ret |-> Err, maze |-> m]

open_north_wall(m, cell) ==
    LET index == north_wall_index_for_cell(m, cell.x, cell.y)
    IN  IF index.some
        THEN [ret |-> Ok, maze |-> [m EXCEPT !.walls[index.val] = Open]]
        ELSE [ret |-> Err, maze |-> m]

open_east_wall(m, cell) ==
    LET index == east_wall_index_for_cell(m, cell.x, cell.y)
    IN  IF index.some
        THEN [ret |-> Ok, maze |-> [m EXCEPT !.walls[index.val] = Open]]
        ELSE [ret |-> Err, maze |-> m]

----------------------------------------------------------------------------
\* Corner glyphs.  A glyph is written as its Unicode code point; the box
\* drawing characters of the source are U+2500 (left-right), U+2502 (up-down),
\* U+250C (down-right), U+2510 (down-left), U+2514 (up-right), U+2518
\* (up-left), U+251C (up-down-right), U+2524 (up-down-left), U+252C
\* (down-left-right), U+2534 (up-left-right), U+253C (all four), U+2574
\* (left), U+2575 (up), U+2576 (right), U+2577 (down), and the space U+0020.

\* The 16-entry table of get_corner, keyed by the tuple of four walls.
corner_table(walls) ==
    CASE walls = <<Open, Open, Open, Open>> -> "U+0020"
      [] walls = <<Open, Open, Open, Closed>> -> "U+2574"
      [] walls = <<Open, Open, Closed, Open>> -> "U+2577"
      [] walls = <<Open, Open, Closed, Closed>> -> "U+2510"
      [] walls = <<Open, Closed, Open, Open>> -> "U+2576"
      [] walls = <<Open, Closed, Open, Closed>> -> "U+2500"
      [] walls = <<Open, Closed, Closed, Open>> -> "U+250C"
      [] walls = <<Open, Closed, Closed, Closed>> -> "U+252C"
      [] walls = <<Closed, Open, Open, Open>> -> "U+2575"
      [] walls = <<Closed, Open, Open, Closed>> -> "U+2518"
      [] walls = <<Closed, Open, Closed, Open>> -> "U+2502"
      [] walls = <<Closed, Open, Closed, Closed>> -> "U+2524"
      [] walls = <<Closed, Closed, Open, Open>> -> "U+2514"
      [] walls = <<Closed, Closed, Open, Closed>> -> "U+2534"
      [] walls = <<Closed, Closed, Closed, Open>> -> "U+251C"
      [] walls = <<Closed, Closed, Closed, Closed>> -> "U+253C"

\* A variant of corner_walls that reads the two east walls in the other order.
corner_walls_flipped(m, x, y) ==
    <<m.walls[east_wall_index_for_cell(m, x - 1, y - 1).val],
      m.walls[north_wall_index_for_cell(m, x, y - 1).val],
      m.walls[east_wall_index_for_cell(m, x - 1, y).val],
      m.walls[north_wall_index_for_cell(m, x - 1, y - 1).val]>>

\* The tuple of walls get_corner inspects at an interior lattice point.
corner_walls(m, x, y) ==
    <<m.walls[east_wall_index_for_cell(m, x - 1, y).val],
      m.walls[north_wall_index_for_cell(m, x, y - 1).val],
      m.walls[east_wall_index_for_cell(m, x - 1, y - 1).val],
      m.walls[north_wall_index_for_cell(m, x - 1, y - 1).val]>>

\* get_corner(maze, x, y): the match arms in the order of the source.
get_corner(m, x, y) ==
    IF x > m.width \/ y > m.height THEN None
    ELSE IF x = 0 /\ y = 0 THEN Some("U+2514")
    ELSE IF x = 0 /\ y = m.height THEN Some("U+250C")
    ELSE IF y = 0 /\ x = m.width THEN Some("U+2518")
    ELSE IF x = m.width /\ y = m.height THEN Some("U+2510")
    ELSE IF x = 0
    THEN Some(IF m.walls[south_wall_index_for_cell(m, 0, y).val] = Open
              THEN "U+2502" ELSE "U+251C")
    ELSE IF x = m.width
    THEN Some(IF m.walls[south_wall_index_for_cell(m, x - 1, y).val] = Open
              THEN "U+2502" ELSE "U+2524")
    ELSE IF y = 0
    THEN Some(IF m.walls[east_wall_index_for_cell(m, x - 1, 0).val] = Open
              THEN "U+2500" ELSE "U+2534")
    ELSE IF y = m.height
    THEN Some(IF m.walls[east_wall_index_for_cell(m, x - 1, y - 1).val] = Open
              THEN "U+2500" ELSE "U+252C")
    ELSE Some(corner_table(corner_walls(m, x, y)))

----------------------------------------------------------------------------
\* MazeIterator

\* A variant of MazeIterator_new that takes max_x from the height and max_y
\* from the width.
MazeIterator_new_swapped(m) ==
    [current_x |-> 0,
     current_y |-> 0,
     max_x |-> m.height - 1,
     max_y |-> m.width - 1]

MazeIterator_new(m) ==
    [current_x |-> 0,
     current_y |-> 0,
     max_x |-> m.width - 1,
     max_y |-> m.height - 1]

\* Iterator::next: the returned Option and the iterator afterwards.
MazeIterator_next(it) ==
    IF it.current_y > it.max_y
    THEN [ret |-> None, iter |-> it]
    ELSE IF it.current_x < it.max_x
    THEN [ret |-> Some(MazeCell_new(it.current_x, it.current_y)),
          iter |-> [it EXCEPT !.current_x = it.current_x + 1]]
    ELSE [ret |-> Some(MazeCell_new(it.current_x, it.current_y)),
          iter |-> [it EXCEPT !.current_x = 0, !.current_y = it.current_y + 1]]

----------------------------------------------------------------------------
\* Generators

\* A variant of binary_tree_args that passes the arguments on in their order.
binary_tree_args_unswapped(width, height) == <<width, height>>

\* The arguments binary_tree and sidewinder pass on to the *_with_rand_fn
\* variants (lines 86 and 119), as <<width, height>> of the callee.
binary_tree_args(width, height) == <<height, width>>
sidewinder_args(width, height) == <<height, width>>

\* The arguments the *_with_rand_fn variants pass to Maze::new (lines 93 and
\* 132), as <<width, height>> of Maze::new.
binary_tree_new_args(width, height) == <<height, width>>
sidewinder_new_args(width, height) == <<height, width>>

\* A variant of binary_tree_body without the fallback to the north wall.
binary_tree_body_no_fallback(m, cell, rand_bool) ==
    IF rand_bool
    THEN LET result == open_north_wall(m, cell)
         IN  IF result.ret = Err
             THEN open_east_wall(m, cell).maze
             ELSE result.maze
    ELSE open_east_wall(m, cell).maze

\* The loop body of binary_tree_with_rand_fn for one cell: the maze afterwards.
binary_tree_body(m, cell, rand_bool) ==
    IF rand_bool
    THEN LET result == open_north_wall(m, cell)
         IN  IF result.ret = Err
             THEN open_east_wall(m, cell).maze
             ELSE result.maze
    ELSE LET result == open_east_wall(m, cell)
         IN  IF result.ret = Err
             THEN open_north_wall(m, cell).maze
             ELSE result.maze

\* A variant of sidewinder_body that keeps the run when the east wall is the
\* edge of the maze.
sidewinder_body_no_drain(m, run, cell, rand_bool, rand_usize) ==
    LET pushed == Append(run, cell)
    IN  IF rand_bool
        THEN LET selected_cell_index == rand_usize % Len(pushed)
                 selected_cell == pushed[selected_cell_index + 1]
                 result == open_north_wall(m, selected_cell)
             IN  [cells_in_run |-> << >>,
                  maze |-> IF result.ret = Err
                           THEN open_east_wall(m, selected_cell).maze
                           ELSE result.maze]
        ELSE LET result == open_east_wall(m, cell)
             IN  IF result.ret = Err
                 THEN [cells_in_run |-> pushed,
                       maze |-> open_north_wall(m, cell).maze]
                 ELSE [cells_in_run |-> pushed, maze |-> result.maze]

\* The loop body of sidewinder_with_rand_fn for one cell: the maze and the run
\* afterwards.
sidewinder_body(m, run, cell, rand_bool, rand_usize) ==
    LET pushed == Append(run, cell)
    IN  IF rand_bool
        THEN LET selected_cell_index == rand_usize % Len(pushed)
                 selected_cell == pushed[selected_cell_index + 1]
                 result == open_north_wall(m, selected_cell)
             IN  [cells_in_run |-> << >>,
                  maze |-> IF result.ret = Err
                           THEN open_east_wall(m, selected_cell).maze
                           ELSE result.maze]
        ELSE LET result == open_east_wall(m, cell)
             IN  IF result.ret = Err
                 THEN [cells_in_run |-> << >>,
                       maze |-> open_north_wall(m, cell).maze]
                 ELSE [cells_in_run |-> pushed, maze |-> result.maze]

----------------------------------------------------------------------------
\* The state machine

Dims == 1 .. MaxDim
Generators == {"binary_tree", "binary_tree_with_rand_fn",
               "sidewinder", "sidewinder_with_rand_fn"}

\* The caller picks one call and a build.  Maze::new is also called with a
\* zero width or height; the generators are called on grids of at least 1 x 1.
\* The two builds differ only where a subtraction underflows, which takes a
\* zero width or height, so the other calls are followed in one build.
Init ==
    /\ call \in [fn : {"new"}, width : 0 .. MaxDim, height : 0 .. MaxDim]
              \cup [fn : Generators, width : Dims, height : Dims]
    /\ overflow_checks \in (IF call.width < 1 \/ call.height < 1
                            THEN BOOLEAN
                            ELSE {TRUE})
    /\ pc = "start"
    /\ outcome = "pending"
    /\ maze = NoMaze
    /\ iter = NoIter
    /\ yielded = << >>
    /\ nones = 0
    /\ cells_in_run = << >>
    /\ last = NoCall
    /\ before = VecClosed(0)
    /\ ops = 0

\* let maze = Maze::new(width, height);  the caller goes on to use the grid
\* directly when it has at least one cell.  A vector of 2^32 + total walls is
\* either allocated ("huge") or the allocation aborts the process ("abort").
CallNew ==
    /\ pc = "start"
    /\ call.fn = "new"
    /\ LET r == Maze_new(call.width, call.height, overflow_checks)
       IN  /\ maze' = r.maze
           /\ outcome' \in (IF r.status = "huge" THEN {"huge", "abort"} ELSE {r.status})
           /\ pc' = IF r.status = "maze" /\ call.width >= 1 /\ call.height >= 1
                    THEN "client"
                    ELSE "done"
    /\ UNCHANGED <<overflow_checks, call, iter, yielded, nones, cells_in_run,
                   last, before, ops>>

\* The head of binary_tree_with_rand_fn(width, height, ..): lines 93-94.
binary_tree_with_rand_fn_enter(width, height) ==
    LET a == binary_tree_new_args(width, height)
        r == Maze_new(a[1], a[2], overflow_checks)
    IN  /\ maze' = r.maze
        /\ iter' = MazeIterator_new(r.maze)
        /\ pc' = "bt_loop"
        /\ UNCHANGED <<overflow_checks, call, outcome, yielded, nones,
                       cells_in_run, last, before, ops>>

\* The head of sidewinder_with_rand_fn(width, height, ..): lines 132-134.
sidewinder_with_rand_fn_enter(width, height) ==
    LET a == sidewinder_new_args(width, height)
        r == Maze_new(a[1], a[2], overflow_checks)
    IN  /\ maze' = r.maze
        /\ iter' = MazeIterator_new(r.maze)
        /\ cells_in_run' = << >>
        /\ pc' = "sw_loop"
        /\ UNCHANGED <<overflow_checks, call, outcome, yielded, nones,
                       last, before, ops>>

CallBinaryTree ==
    /\ pc = "start"
    /\ call.fn = "binary_tree"
    /\ LET a == binary_tree_args(call.width, call.height)
       IN  binary_tree_with_rand_fn_enter(a[1], a[2])

CallBinaryTreeWithRandFn ==
    /\ pc = "start"
    /\ call.fn = "binary_tree_with_rand_fn"
    /\ binary_tree_with_rand_fn_enter(call.width, call.height)

CallSidewinder ==
    /\ pc = "start"
    /\ call.fn = "sidewinder"
    /\ LET a == sidewinder_args(call.width, call.height)
       IN  sidewinder_with_rand_fn_enter(a[1], a[2])

CallSidewinderWithRandFn ==
    /\ pc = "start"
    /\ call.fn = "sidewinder_with_rand_fn"
    /\ sidewinder_with_rand_fn_enter(call.width, call.height)

\* One iteration of `for cell in maze_iter` in binary_tree_with_rand_fn.
BinaryTreeStep ==
    /\ pc = "bt_loop"
    /\ LET n == MazeIterator_next(iter)
       IN  /\ n.ret.some
           /\ iter' = n.iter
           /\ yielded' = Append(yielded, n.ret.val)
           /\ \E rand_bool \in BOOLEAN :
                  maze' = binary_tree_body(maze, n.ret.val, rand_bool)
    /\ UNCHANGED <<overflow_checks, call, pc, outcome, nones, cells_in_run,
                   last, before, ops>>

\* The iterator is exhausted: binary_tree_with_rand_fn returns the maze.
BinaryTreeReturn ==
    /\ pc = "bt_loop"
    /\ LET n == MazeIterator_next(iter)
       IN  /\ ~n.ret.some
           /\ iter' = n.iter
    /\ nones' = nones + 1
    /\ pc' = "done"
    /\ outcome' = "maze"
    /\ UNCHANGED <<overflow_checks, call, maze, yielded, cells_in_run,
                   last, before, ops>>

\* One iteration of `for cell in maze_iter` in sidewinder_with_rand_fn;
\* rand_usize is called only when rand_bool has returned true.
SidewinderStep ==
    /\ pc = "sw_loop"
    /\ LET n == MazeIterator_next(iter)
       IN  /\ n.ret.some
           /\ iter' = n.iter
           /\ yielded' = Append(yielded, n.ret.val)
           /\ \E rand_bool \in BOOLEAN :
              \E rand_usize \in (IF rand_bool THEN 0 .. MaxRand ELSE {0}) :
                  LET b == sidewinder_body(maze, cells_in_run, n.ret.val,
                                           rand_bool, rand_usize)
                  IN  /\ maze' = b.maze
                      /\ cells_in_run' = b.cells_in_run
    /\ UNCHANGED <<overflow_checks, call, pc, outcome, nones, last, before, ops>>

\* The iterator is exhausted: sidewinder_with_rand_fn returns the maze.
SidewinderReturn ==
    /\ pc = "sw_loop"
    /\ LET n == MazeIterator_next(iter)
       IN  /\ ~n.ret.some
           /\ iter' = n.iter
    /\ nones' = nones + 1
    /\ pc' = "done"
    /\ outcome' = "maze"
    /\ UNCHANGED <<overflow_checks, call, maze, yielded, cells_in_run,
                   last, before, ops>>

\* maze.open_north_wall(cell) called directly on an in-range cell.
ClientOpenNorthWall ==
    /\ pc = "client"
    /\ ops < MaxOps
    /\ maze.width <= MaxClientDim
    /\ maze.height <= MaxClientDim
    /\ \E x \in 0 .. (maze.width - 1), y \in 0 .. (maze.height - 1) :
           LET r == open_north_wall(maze, MazeCell_new(x, y))
           IN  /\ maze' = r.maze
               /\ last' = [op |-> "open_north_wall", x |-> x, y |-> y, ret |-> r.ret]
    /\ before' = maze.walls
    /\ ops' = ops + 1
    /\ UNCHANGED <<overflow_checks, call, pc, outcome, iter, yielded, nones,
                   cells_in_run>>

\* maze.open_east_wall(cell) called directly on an in-range cell.
ClientOpenEastWall ==
    /\ pc = "client"
    /\ ops < MaxOps
    /\ maze.width <= MaxClientDim
    /\ maze.height <= MaxClientDim
    /\ \E x \in 0 .. (maze.width - 1), y \in 0 .. (maze.height - 1) :
           LET r == open_east_wall(maze, MazeCell_new(x, y))
           IN  /\ maze' = r.maze
               /\ last' = [op |-> "open_east_wall", x |-> x, y |-> y, ret |-> r.ret]
    /\ before' = maze.walls
    /\ ops' = ops + 1
    /\ UNCHANGED <<overflow_checks, call, pc, outcome, iter, yielded, nones,
                   cells_in_run>>

\* get_corner(&maze, x, y) called on a lattice point, or just outside the
\* lattice, as the last thing the caller does with the grid.
ClientGetCorner ==
    /\ pc = "client"
    /\ pc' = "done"
    /\ \E x \in 0 .. (maze.width + 1), y \in 0 .. (maze.height + 1) :
           last' = [op |-> "get_corner", x |-> x, y |-> y,
                    ret |-> get_corner(maze, x, y)]
    /\ before' = maze.walls
    /\ UNCHANGED <<overflow_checks, call, outcome, maze, iter, yielded,
                   nones, cells_in_run, ops>>

\* let mut maze_iter = MazeIterator::new(&maze);  from here on the caller
\* only advances the iterator.
ClientMazeIteratorNew ==
    /\ pc = "client"
    /\ iter' = MazeIterator_new(maze)
    /\ pc' = "iterating"
    /\ last' = [op |-> "MazeIterator::new"]
    /\ before' = maze.walls
    /\ UNCHANGED <<overflow_checks, call, outcome, maze, yielded, nones,
                   cells_in_run, ops>>

\* maze_iter.next(), also after it has returned None.
ClientNext ==
    /\ pc = "iterating"
    /\ nones <= MaxNone
    /\ LET n == MazeIterator_next(iter)
       IN  /\ iter' = n.iter
           /\ yielded' = IF n.ret.some THEN Append(yielded, n.ret.val) ELSE yielded
           /\ nones' = IF n.ret.some THEN nones ELSE nones + 1
           /\ last' = [op |-> "next", ret |-> n.ret]
    /\ before' = maze.walls
    /\ UNCHANGED <<overflow_checks, call, pc, outcome, maze, cells_in_run, ops>>

Next ==
    \/ CallNew
    \/ CallBinaryTree
    \/ CallBinaryTreeWithRandFn
    \/ CallSidewinder
    \/ CallSidewinderWithRandFn
    \/ BinaryTreeStep
    \/ BinaryTreeReturn
    \/ SidewinderStep
    \/ SidewinderReturn
    \/ ClientOpenNorthWall
    \/ ClientOpenEastWall
    \/ ClientGetCorner
    \/ ClientMazeIteratorNew
    \/ ClientNext

Spec == Init /\ [][Next]_vars

----------------------------------------------------------------------------
\* Vocabulary of the properties

\* The cells of a grid and the wall slots of the layout, written out from the
\* layout formulas: the north wall of (x, y) is slot x + y*width, the east
\* wall of (x, y) is slot (height-1)*width + y + x*height.
Cells(m) == {MazeCell_new(x, y) : x \in 0 .. (m.width - 1), y \in 0 .. (m.height - 1)}
HorizontalCount(m) == (m.height - 1) * m.width
NorthSlot(m, x, y) == x + y * m.width
EastSlot(m, x, y) == HorizontalCount(m) + y + x * m.height

HasGrid == maze.width >= 1 /\ maze.height >= 1

\* A grid has been built and nothing has been done with it yet.
FreshGrid ==
    /\ HasGrid
    /\ pc # "start"
    /\ yielded = << >> /\ nones = 0 /\ ops = 0 /\ last = NoCall

NorthOpen(m, c) == c.y <= m.height - 2 /\ m.walls[NorthSlot(m, c.x, c.y)] = Open
EastOpen(m, c) == c.x <= m.width - 2 /\ m.walls[EastSlot(m, c.x, c.y)] = Open

\* There is an open wall between the cells a and b.
Passage(m, a, b) ==
    \/ b = MazeCell_new(a.x, a.y + 1) /\ NorthOpen(m, a)
    \/ a = MazeCell_new(b.x, b.y + 1) /\ NorthOpen(m, b)
    \/ b = MazeCell_new(a.x + 1, a.y) /\ EastOpen(m, a)
    \/ a = MazeCell_new(b.x + 1, b.y) /\ EastOpen(m, b)

RECURSIVE Reach(_, _)
\* The cells reachable from the set S through open walls.
Reach(m, S) ==
    LET T == S \cup {c \in Cells(m) : \E d \in S : Passage(m, c, d)}
    IN  IF T = S THEN S ELSE Reach(m, T)

Connected(m) == Reach(m, {MazeCell_new(0, 0)}) = Cells(m)

RECURSIVE Core(_, _)
\* What is left of S after removing, again and again, the cells with at most
\* one passage into S: empty exactly when the passages form no cycle.
Core(m, S) ==
    LET leaves == {c \in S : Cardinality({d \in S : Passage(m, c, d)}) <= 1}
    IN  IF leaves = {} THEN S ELSE Core(m, S \ leaves)

Acyclic(m) == Core(m, Cells(m)) = {}

OpenCount(m) == Cardinality({i \in DOMAIN m.walls : m.walls[i] = Open})

PerfectMaze(m) ==
    /\ Connected(m)
    /\ Acyclic(m)
    /\ OpenCount(m) = m.width * m.height - 1

\* The cells in row-major order, x advancing fastest.
RowMajor(width, height) ==
    [i \in 1 .. (width * height) |->
        MazeCell_new((i - 1) % width, (i - 1) \div width)]

\* The arms of the box drawing characters (The Unicode Standard, Box Drawing).
GlyphOfArms(arms) ==
    CASE arms = {} -> "U+0020"
      [] arms = {"left"} -> "U+2574"
      [] arms = {"up"} -> "U+2575"
      [] arms = {"right"} -> "U+2576"
      [] arms = {"down"} -> "U+2577"
      [] arms = {"left", "right"} -> "U+2500"
      [] arms = {"up", "down"} -> "U+2502"
      [] arms = {"down", "right"} -> "U+250C"
      [] arms = {"down", "left"} -> "U+2510"
      [] arms = {"up", "right"} -> "U+2514"
      [] arms = {"up", "left"} -> "U+2518"
      [] arms = {"up", "down", "right"} -> "U+251C"
      [] arms = {"up", "down", "left"} -> "U+2524"
      [] arms = {"down", "left", "right"} -> "U+252C"
      [] arms = {"up", "left", "right"} -> "U+2534"
      [] arms = {"up", "down", "left", "right"} -> "U+253C"

Directions == {"up", "right", "down", "left"}

----------------------------------------------------------------------------
\* Properties

SidewinderDone ==
    pc = "done" /\ call.fn \in {"sidewinder", "sidewinder_with_rand_fn"}

BinaryTreeDone ==
    pc = "done" /\ call.fn \in {"binary_tree", "binary_tree_with_rand_fn"}

\* C1: when sidewinder generation finishes, the open walls form a perfect
\* maze: every cell reaches every other cell, there is no cycle, and the
\* number of Open walls is width*height - 1.
C1_SidewinderPerfect == SidewinderDone => PerfectMaze(maze)

\* C2: when binary-tree generation finishes, the open walls form a perfect
\* maze, every cell but the north-east corner has opened exactly one of its
\* own north and east walls, and the north-east corner cell none.
C2_BinaryTreePerfect ==
    BinaryTreeDone =>
        /\ PerfectMaze(maze)
        /\ \A c \in Cells(maze) :
               IF c.x = maze.width - 1 /\ c.y = maze.height - 1
               THEN ~NorthOpen(maze, c) /\ ~EastOpen(maze, c)
               ELSE NorthOpen(maze, c) # EastOpen(maze, c)

\* A binary-tree run has finished on a 3 x 3 grid whose cell (0, 0) opened
\* east and whose cell (1, 0) opened north.
C2_Witness ==
    /\ BinaryTreeDone
    /\ maze.width = 3 /\ maze.height = 3
    /\ EastOpen(maze, MazeCell_new(0, 0))
    /\ NorthOpen(maze, MazeCell_new(1, 0))

\* C3: for width >= 1 and height >= 1, Maze::new(width, height) returns a grid
\* that stores the width and the height and has exactly
\* (width-1)*height + (height-1)*width walls, all of them Closed.
C3_NewAllClosed ==
    (call.fn = "new" /\ pc # "start" /\ ops = 0
        /\ call.width >= 1 /\ call.height >= 1) =>
        /\ outcome = "maze"
        /\ maze.width = call.width
        /\ maze.height = call.height
        /\ DOMAIN maze.walls =
               0 .. ((call.width - 1) * call.height + (call.height - 1) * call.width - 1)
        /\ \A i \in DOMAIN maze.walls : maze.walls[i] = Closed

\* Maze::new(3, 2) has returned a grid of 7 walls.
C3_Witness ==
    /\ call.fn = "new" /\ pc # "start" /\ ops = 0
    /\ call.width = 3 /\ call.height = 2
    /\ VecLen(maze.walls) = 7

\* C4: the wall-slot layout is a partition.  north_wall_index_for_cell maps
\* the cells with y <= height-2 one-to-one onto the slots 0 .. (height-1)*width-1
\* by x + y*width, east_wall_index_for_cell maps the cells with x <= width-2
\* one-to-one onto the slots (height-1)*width .. len-1 by
\* horizontal_count + y + x*height, and they are None for the other cells.
\* The layout depends on the width, the height and the length of the wall
\* array only, so it is checked on every grid as it is first held.
C4_LayoutPartition ==
    FreshGrid =>
        LET w == maze.width
            h == maze.height
            len == VecLen(maze.walls)
            hc == (h - 1) * w
            n(x, y) == north_wall_index_for_cell(maze, x, y)
            e(x, y) == east_wall_index_for_cell(maze, x, y)
            northSlots == {n(x, y).val : x \in 0 .. (w - 1), y \in 0 .. (h - 2)}
            eastSlots == {e(x, y).val : x \in 0 .. (w - 2), y \in 0 .. (h - 1)}
        IN  /\ DOMAIN maze.walls = 0 .. (len - 1)
            /\ \A x \in 0 .. (w - 1), y \in 0 .. (h - 1) :
                   /\ n(x, y).some <=> y <= h - 2
                   /\ e(x, y).some <=> x <= w - 2
                   /\ n(x, y).some => n(x, y).val = x + y * w
                   /\ e(x, y).some => e(x, y).val = hc + y + x * h
            /\ northSlots = 0 .. (hc - 1)
            /\ eastSlots = hc .. (len - 1)
            /\ Cardinality(northSlots) = w * (h - 1)
            /\ Cardinality(eastSlots) = (w - 1) * h

\* sidewinder_with_rand_fn has just built a grid 2 wide and 3 high: it has 7
\* walls, the north wall of cell (1, 1) is slot 3 and the east wall of cell
\* (0, 2) is slot 6.
C4_Witness ==
    /\ FreshGrid
    /\ pc = "sw_loop"
    /\ maze.width = 2 /\ maze.height = 3
    /\ VecLen(maze.walls) = 7
    /\ north_wall_index_for_cell(maze, 1, 1) = Some(3)
    /\ east_wall_index_for_cell(maze, 0, 2) = Some(6)

\* C5: successive calls of MazeIterator::next return each cell of the grid
\* exactly once in row-major order, x advancing fastest; the call after the
\* last cell returns None and so does every later call.
C5_IteratorRowMajor ==
    (HasGrid /\ pc \in {"iterating", "bt_loop", "sw_loop", "done"}) =>
        LET order == RowMajor(maze.width, maze.height)
        IN  /\ Len(yielded) <= Len(order)
            /\ yielded = SubSeq(order, 1, Len(yielded))
            /\ nones > 0 => yielded = order

\* The caller has walked a grid 3 wide and 2 high to its end and has been
\* returned None twice.
C5_Witness ==
    /\ pc = "iterating"
    /\ maze.width = 3 /\ maze.height = 2
    /\ Len(yielded) = 6
    /\ nones >= 2

\* C6: on an in-range cell, open_north_wall returns the error exactly when
\* cell.y = height-1 and open_east_wall exactly when cell.x = width-1; with
\* the error no wall slot has changed, and with Ok the addressed slot is Open
\* and every other slot is unchanged.
C6_OpenWall ==
    /\ last.op = "open_north_wall" =>
           /\ last.ret = Err <=> last.y = maze.height - 1
           /\ last.ret = Err => maze.walls = before
           /\ last.ret = Ok =>
                  /\ DOMAIN maze.walls = DOMAIN before
                  /\ maze.walls[NorthSlot(maze, last.x, last.y)] = Open
                  /\ \A i \in DOMAIN before :
                         i # NorthSlot(maze, last.x, last.y) => maze.walls[i] = before[i]
    /\ last.op = "open_east_wall" =>
           /\ last.ret = Err <=> last.x = maze.width - 1
           /\ last.ret = Err => maze.walls = before
           /\ last.ret = Ok =>
                  /\ DOMAIN maze.walls = DOMAIN before
                  /\ maze.walls[EastSlot(maze, last.x, last.y)] = Open
                  /\ \A i \in DOMAIN before :
                         i # EastSlot(maze, last.x, last.y) => maze.walls[i] = before[i]

\* On a 2 x 2 grid with an east wall already open, open_north_wall has just
\* opened the closed north wall of cell (1, 0).
C6_Witness ==
    /\ last.op = "open_north_wall" /\ last.ret = Ok
    /\ maze.width = 2 /\ maze.height = 2
    /\ last.x = 1 /\ last.y = 0
    /\ before[1] = Closed /\ maze.walls[1] = Open
    /\ \E i \in DOMAIN before : i >= 2 /\ before[i] = Open

\* C7: Maze::new(width, height) fails whenever width < 1 or height < 1, and
\* no grid is produced.
C7_NewRejectsZero ==
    (call.fn = "new" /\ pc # "start" /\ (call.width < 1 \/ call.height < 1)) =>
        outcome \notin {"maze", "huge"}

\* C8: at an interior lattice point (x, y) the glyph returned by get_corner
\* has an arm up, right, down, left exactly when, respectively, the east wall
\* of cell (x-1, y), the north wall of cell (x, y-1), the east wall of cell
\* (x-1, y-1) and the north wall of cell (x-1, y-1) is Closed; the 16
\* combinations give 16 distinct glyphs, all Open the space and all Closed the
\* four-armed cross.
C8_CornerArms ==
    (/\ last.op = "get_corner"
     /\ 1 <= last.x /\ last.x <= maze.width - 1
     /\ 1 <= last.y /\ last.y <= maze.height - 1) =>
        LET x == last.x
            y == last.y
            wall(d) == CASE d = "up" -> maze.walls[EastSlot(maze, x - 1, y)]
                         [] d = "right" -> maze.walls[NorthSlot(maze, x, y - 1)]
                         [] d = "down" -> maze.walls[EastSlot(maze, x - 1, y - 1)]
                         [] d = "left" -> maze.walls[NorthSlot(maze, x - 1, y - 1)]
            arms == {d \in Directions : wall(d) = Closed}
        IN  /\ last.ret = Some(GlyphOfArms(arms))
            /\ Cardinality({GlyphOfArms(a) : a \in SUBSET Directions}) = 16
            /\ arms = {} => last.ret.val = "U+0020"
            /\ arms = Directions => last.ret.val = "U+253C"

\* get_corner has returned the right-pointing half line at the interior point
\* of a 2 x 2 grid: only the north wall of cell (1, 0) is still Closed.
C8_Witness ==
    /\ last.op = "get_corner"
    /\ maze.width = 2 /\ maze.height = 2
    /\ last.x = 1 /\ last.y = 1
    /\ last.ret = Some("U+2576")
    /\ OpenCount(maze) = 3

\* C9: the maze returned by Maze::binary_tree(width, height) and by
\* Maze::sidewinder(width, height) stores width as its width and height as its
\* height and has (width-1)*height + (height-1)*width walls.
C9_PublicDimensions ==
    (pc = "done" /\ call.fn \in {"binary_tree", "sidewinder"}) =>
        /\ outcome = "maze"
        /\ maze.width = call.width
        /\ maze.height = call.height
        /\ VecLen(maze.walls) =
               (call.width - 1) * call.height + (call.height - 1) * call.width

\* Maze::sidewinder(3, 1) has returned.
C9_Witness ==
    /\ pc = "done" /\ call.fn = "sidewinder"
    /\ call.width = 3 /\ call.height = 1
    /\ maze.width = 3

\* C10: in sidewinder generation, after the loop body has processed a cell
\* with x = width-1 the run is empty, and at every point all cells of the run
\* have the same y and consecutive x.
C10_RunClosedAtRowEnd ==
    (pc = "sw_loop" \/ SidewinderDone) =>
        /\ (Len(yielded) > 0 /\ yielded[Len(yielded)].x = maze.width - 1) =>
               cells_in_run = << >>
        /\ \A i \in 1 .. (Len(cells_in_run) - 1) :
               /\ cells_in_run[i + 1].y = cells_in_run[i].y
               /\ cells_in_run[i + 1].x = cells_in_run[i].x + 1

\* On a grid 3 wide and 2 high the first row has just been walked: its two
\* east walls were opened while the run grew, the run has been closed at the
\* right edge by a north opening, and the run is empty.
C10_Witness ==
    /\ pc = "sw_loop"
    /\ maze.width = 3 /\ maze.height = 2
    /\ Len(yielded) = 3
    /\ EastOpen(maze, MazeCell_new(0, 0)) /\ EastOpen(maze, MazeCell_new(1, 0))
    /\ OpenCount(maze) = 3
    /\ cells_in_run = << >>

\* C11: binary_tree_with_rand_fn(width, height, ..) and
\* sidewinder_with_rand_fn(width, height, ..) return a maze whose stored width
\* is their width argument and whose stored height is their height argument,
\* and they iterate over exactly the cells with x < width and y < height.
C11_RandFnDimensions ==
    (/\ call.fn \in {"binary_tree_with_rand_fn", "sidewinder_with_rand_fn"}
     /\ pc = "done") =>
        /\ outcome = "maze"
        /\ maze.width = call.width
        /\ maze.height = call.height
        /\ {yielded[i] : i \in 1 .. Len(yielded)} =
               {MazeCell_new(x, y) : x \in 0 .. (call.width - 1),
                                     y \in 0 .. (call.height - 1)}

====
